---- MODULE Spec2Model ----
(***************************************************************************)
(* Buffer pool manager of the UniBase page store                           *)
(* (src/src/storage/buffer_pool_manager.cpp).                              *)
(*                                                                         *)
(* The program state is the frame array pages_, the page table, the free   *)
(* list, the replacer's set of evictable frames and the disk manager's     *)
(* pages and allocation counters.  Every public operation is one action;   *)
(* the operators find_victim_page, update_page, fetch_page_body, ... thread *)
(* a record of the program state through the statements of the C++ code.   *)
(* The variables call and writebacks are history variables: the last       *)
(* operation with its result, and the write-backs of a frame made while it  *)
(* is flagged dirty.  The collaborator calls of an operation are logged in  *)
(* the io field of the record the operation returns.                        *)
(***************************************************************************)
EXTENDS Integers, Sequences, FiniteSets, TLC

\* ---- bounds of the model ------------------------------------------------
PoolSize == 2      \* number of frames (pool_size_)
NumFds == 1        \* open files
MaxPageNo == 3     \* pages a file can allocate: page numbers 0..MaxPageNo-1
MaxPin == 2        \* fetch_page of a resident page is cut off at this pin count
MaxData == 1       \* page contents are 0..MaxData; 0 is the zeroed buffer

INVALID_PAGE_ID == -1
NoFrame == -1      \* the nullptr result of fetch_page / new_page

Frames == 0 .. (PoolSize - 1)
Fds == 1 .. NumFds
Data == 0 .. MaxData
PageIds == [fd : Fds, page_no : 0 .. (MaxPageNo - 1)]
InvalidIds == [fd : Fds, page_no : {INVALID_PAGE_ID}]
NoPageId == [fd |-> 0, page_no |-> INVALID_PAGE_ID]

\* Threads that call the pool concurrently, and the operations they call in all.
NumThreads == 2
MaxOps == 5
NoThread == 0
Threads == 1 .. NumThreads

\* A thread that is in no operation of the pool.
Idle ==
    [op |-> "idle", stage |-> "idle", page_id |-> NoPageId, is_dirty |-> FALSE,
     frame |-> NoFrame, src |-> "none", valid |-> TRUE, visited |-> {}]

VARIABLES
    pages,        \* pages_[f] : [id, is_dirty, pin_count, data]
    page_table,   \* page_table_ : PageId -> frame, a function on the resident ids
    free_list,    \* free_list_ : sequence of frames
    replacer,     \* frames the replacer holds as evictable
    disk,         \* disk manager: bytes stored for each page
    next_page_no, \* disk manager: next page number to allocate
    call,         \* history: the last operation and its result
    writebacks,   \* history: writes of a frame's buffer made while it is flagged dirty
    latch,        \* latch_ : the thread that holds it, or NoThread
    pc,           \* pc[t] : the operation thread t is in and how far it has got
    ops           \* the number of operations called by the threads so far

vars == <<pages, page_table, free_list, replacer, disk, next_page_no, call, writebacks,
          latch, pc, ops>>

\* The program state as one record, with an empty log of collaborator calls.
State ==
    [pages |-> pages, page_table |-> page_table, free_list |-> free_list,
     replacer |-> replacer, disk |-> disk, next_page_no |-> next_page_no,
     io |-> <<>>]

\* ---- std::unordered_map<PageId, frame_id_t> -------------------------------
Erase(pt, id) == [p \in (DOMAIN pt) \ {id} |-> pt[p]]

Put(pt, id, f) == [p \in (DOMAIN pt) \cup {id} |-> IF p = id THEN f ELSE pt[p]]

\* ---- collaborators ------------------------------------------------------
Event(ev, id, data, f) == [ev |-> ev, id |-> id, data |-> data, frame |-> f]

\* DiskManager::write_page(fd, page_no, buf, PAGE_SIZE); f is the frame of buf.
write_page(s, id, data, f) ==
    [s EXCEPT !.disk = [p \in DOMAIN s.disk |-> IF p = id THEN data ELSE s.disk[p]],
              !.io = Append(@, Event("write", id, data, f))]

\* DiskManager::read_page(fd, page_no, buf, PAGE_SIZE) into the buffer of frame f.
read_page(s, id, f) ==
    [s EXCEPT !.pages[f].data = s.disk[id],
              !.io = Append(@, Event("read", id, s.disk[id], f))]

\* DiskManager::allocate_page(fd): the file's next page number.
allocate_page(s, fd) ==
    [s EXCEPT !.next_page_no[fd] = @ + 1,
              !.io = Append(@, Event("alloc", [fd |-> fd, page_no |-> s.next_page_no[fd]], 0, NoFrame))]

\* Replacer::pin(frame): the frame is no longer evictable.
pin(s, f) == [s EXCEPT !.replacer = @ \ {f}]

\* Replacer::unpin(frame): the frame is evictable.
unpin(s, f) == [s EXCEPT !.replacer = @ \cup {f}]

\* Replacer::victim(&frame): the frames the policy may pick; each is removed.
victim(s) ==
    { [ok |-> TRUE, frame_id |-> f, src |-> "replacer",
       s |-> [s EXCEPT !.replacer = @ \ {f},
                       !.io = Append(@, Event("victim", NoPageId, 0, f))]]
      : f \in s.replacer }

\* Replacer::victim(&frame) when nothing is evictable.
victim_none(s) ==
    [ok |-> FALSE, frame_id |-> NoFrame, src |-> "none",
     s |-> [s EXCEPT !.io = Append(@, Event("victim", NoPageId, 0, NoFrame))]]

\* Page::reset_memory(): the buffer is zeroed.
reset_memory(s, f) == [s EXCEPT !.pages[f].data = 0]

\* ---- BufferPoolManager ----------------------------------------------------
\* Mutant of find_victim_page: the victim's page-table entry is not erased.
find_victim_page_keeps_entry(s) ==
    IF s.free_list # <<>>
    THEN { [ok |-> TRUE, frame_id |-> Head(s.free_list), src |-> "free_list",
            s |-> [s EXCEPT !.free_list = Tail(@)]] }
    ELSE IF s.replacer # {}
    THEN victim(s)
    ELSE { victim_none(s) }

\* Mutant of find_victim_page: the replacer is asked before the free list.
find_victim_page_replacer_first(s) ==
    IF s.replacer # {}
    THEN { [v EXCEPT !.s.page_table = Erase(@, v.s.pages[v.frame_id].id)]
           : v \in victim(s) }
    ELSE IF s.free_list # <<>>
    THEN { [ok |-> TRUE, frame_id |-> Head(s.free_list), src |-> "free_list",
            s |-> [s EXCEPT !.free_list = Tail(@)]] }
    ELSE { victim_none(s) }

\* The possible outcomes [ok, frame_id, s] of find_victim_page(&frame_id).
find_victim_page(s) ==
    IF s.free_list # <<>>
    THEN { [ok |-> TRUE, frame_id |-> Head(s.free_list), src |-> "free_list",
            s |-> [s EXCEPT !.free_list = Tail(@)]] }
    ELSE IF s.replacer # {}
    THEN { [v EXCEPT !.s.page_table = Erase(@, v.s.pages[v.frame_id].id)]
           : v \in victim(s) }
    ELSE { victim_none(s) }

\* update_page(page, new_page_id, new_frame_id), page being &pages_[f].
update_page(s, f, new_page_id, new_frame_id) ==
    LET old == s.pages[f]
        s1 == IF old.is_dirty
              THEN [write_page(s, old.id, old.data, f) EXCEPT !.pages[f].is_dirty = FALSE]
              ELSE s
        s2 == [s1 EXCEPT !.pages[f].pin_count = 0]
        s3 == [s2 EXCEPT !.page_table = Put(Erase(@, old.id), new_page_id, new_frame_id)]
        s4 == reset_memory(s3, f)
    IN  [s4 EXCEPT !.pages[f].id = new_page_id]

\* What an operation hands back: the state it leaves, its result (true or a page:
\* ok), the frame it worked on and where it found that frame.
Result(s, ok, f, src) == [s |-> s, ok |-> ok, frame |-> f, src |-> src]

\* Mutant of fetch_page_hit: the replacer is not told of the pin.
fetch_page_hit_no_replacer_pin(s, page_id) ==
    LET frame_id == s.page_table[page_id]
    IN  Result([s EXCEPT !.pages[frame_id].pin_count = @ + 1], TRUE, frame_id, "table")

\* fetch_page(page_id), the page being resident.
fetch_page_hit(s, page_id) ==
    LET frame_id == s.page_table[page_id]
        s1 == pin(s, frame_id)
    IN  Result([s1 EXCEPT !.pages[frame_id].pin_count = @ + 1], TRUE, frame_id, "table")

\* fetch_page(page_id) after find_victim_page returned v.
fetch_page_miss(v, page_id) ==
    IF ~v.ok
    THEN Result(v.s, FALSE, NoFrame, v.src)
    ELSE LET frame_id == v.frame_id
             s1 == IF v.s.pages[frame_id].is_dirty
                   THEN update_page(v.s, frame_id, page_id, frame_id)
                   ELSE v.s
             s2 == read_page(s1, page_id, frame_id)
             s3 == [s2 EXCEPT !.page_table = Put(@, page_id, frame_id),
                              !.pages[frame_id].id = page_id]
             s4 == pin(s3, frame_id)
         IN  Result([s4 EXCEPT !.pages[frame_id].pin_count = 1], TRUE, frame_id, v.src)

\* The possible outcomes of fetch_page(page_id).
fetch_page_body(s, page_id) ==
    IF page_id \in DOMAIN s.page_table
    THEN { fetch_page_hit(s, page_id) }
    ELSE { fetch_page_miss(v, page_id) : v \in find_victim_page(s) }

\* Mutant of unpin_page_body: the replacer is not told when pin_count reaches 0.
unpin_page_no_replacer_unpin(s, page_id, is_dirty) ==
    IF page_id \notin DOMAIN s.page_table
    THEN Result(s, FALSE, NoFrame, "none")
    ELSE LET frame_id == s.page_table[page_id] IN
         IF s.pages[frame_id].pin_count = 0
         THEN Result(s, FALSE, frame_id, "table")
         ELSE LET s1 == [s EXCEPT !.pages[frame_id].pin_count = @ - 1]
                  s3 == IF is_dirty THEN [s1 EXCEPT !.pages[frame_id].is_dirty = TRUE] ELSE s1
              IN  Result(s3, TRUE, frame_id, "table")

\* Mutant of unpin_page_body: is_dirty_ is assigned the argument.
unpin_page_assigns_dirty(s, page_id, is_dirty) ==
    IF page_id \notin DOMAIN s.page_table
    THEN Result(s, FALSE, NoFrame, "none")
    ELSE LET frame_id == s.page_table[page_id] IN
         IF s.pages[frame_id].pin_count = 0
         THEN Result(s, FALSE, frame_id, "table")
         ELSE LET s1 == [s EXCEPT !.pages[frame_id].pin_count = @ - 1]
                  s2 == IF s1.pages[frame_id].pin_count = 0 THEN unpin(s1, frame_id) ELSE s1
              IN  Result([s2 EXCEPT !.pages[frame_id].is_dirty = is_dirty],
                         TRUE, frame_id, "table")

\* Mutant of unpin_page_body: the frame is made evictable at every unpin.
unpin_page_always_evictable(s, page_id, is_dirty) ==
    IF page_id \notin DOMAIN s.page_table
    THEN Result(s, FALSE, NoFrame, "none")
    ELSE LET frame_id == s.page_table[page_id] IN
         IF s.pages[frame_id].pin_count = 0
         THEN Result(s, FALSE, frame_id, "table")
         ELSE LET s1 == [s EXCEPT !.pages[frame_id].pin_count = @ - 1]
                  s2 == unpin(s1, frame_id)
                  s3 == IF is_dirty THEN [s2 EXCEPT !.pages[frame_id].is_dirty = TRUE] ELSE s2
              IN  Result(s3, TRUE, frame_id, "table")

\* Mutant of unpin_page_body: no test of pin_count == 0 before the decrement.
unpin_page_no_zero_guard(s, page_id, is_dirty) ==
    IF page_id \notin DOMAIN s.page_table
    THEN Result(s, FALSE, NoFrame, "none")
    ELSE LET frame_id == s.page_table[page_id]
             s1 == [s EXCEPT !.pages[frame_id].pin_count = @ - 1]
             s2 == IF s1.pages[frame_id].pin_count = 0 THEN unpin(s1, frame_id) ELSE s1
             s3 == IF is_dirty THEN [s2 EXCEPT !.pages[frame_id].is_dirty = TRUE] ELSE s2
         IN  Result(s3, TRUE, frame_id, "table")

\* unpin_page(page_id, is_dirty).
unpin_page_body(s, page_id, is_dirty) ==
    IF page_id \notin DOMAIN s.page_table
    THEN Result(s, FALSE, NoFrame, "none")
    ELSE LET frame_id == s.page_table[page_id] IN
         IF s.pages[frame_id].pin_count = 0
         THEN Result(s, FALSE, frame_id, "table")
         ELSE LET s1 == [s EXCEPT !.pages[frame_id].pin_count = @ - 1]
                  s2 == IF s1.pages[frame_id].pin_count = 0 THEN unpin(s1, frame_id) ELSE s1
                  s3 == IF is_dirty THEN [s2 EXCEPT !.pages[frame_id].is_dirty = TRUE] ELSE s2
              IN  Result(s3, TRUE, frame_id, "table")

\* Mutant of flush_page_body: a clean page is not written.
flush_page_only_dirty(s, page_id) ==
    IF page_id \notin DOMAIN s.page_table \/ page_id.page_no = INVALID_PAGE_ID
    THEN Result(s, FALSE, NoFrame, "none")
    ELSE LET frame_id == s.page_table[page_id]
             s1 == IF s.pages[frame_id].is_dirty
                   THEN write_page(s, page_id, s.pages[frame_id].data, frame_id)
                   ELSE s
         IN  Result([s1 EXCEPT !.pages[frame_id].is_dirty = FALSE], TRUE, frame_id, "table")

\* flush_page(page_id).
flush_page_body(s, page_id) ==
    IF page_id \notin DOMAIN s.page_table \/ page_id.page_no = INVALID_PAGE_ID
    THEN Result(s, FALSE, NoFrame, "none")
    ELSE LET frame_id == s.page_table[page_id]
             s1 == write_page(s, page_id, s.pages[frame_id].data, frame_id)
         IN  Result([s1 EXCEPT !.pages[frame_id].is_dirty = FALSE], TRUE, frame_id, "table")

\* new_page(&page_id) after find_victim_page returned v; fd is page_id->fd.
new_page_with(v, fd) ==
    IF ~v.ok
    THEN Result(v.s, FALSE, NoFrame, v.src)
    ELSE LET frame_id == v.frame_id
             page_id == [fd |-> fd, page_no |-> v.s.next_page_no[fd]]
             s1 == allocate_page(v.s, fd)
             old == s1.pages[frame_id]
             s2 == IF old.is_dirty
                   THEN [write_page(s1, old.id, old.data, frame_id)
                            EXCEPT !.pages[frame_id].is_dirty = FALSE]
                   ELSE s1
             s3 == pin(s2, frame_id)
             s4 == [s3 EXCEPT !.pages[frame_id].pin_count = 1,
                              !.pages[frame_id].id = page_id]
         IN  Result([s4 EXCEPT !.page_table = Put(@, page_id, frame_id)],
                    TRUE, frame_id, v.src)

\* The possible outcomes of new_page(&page_id).
new_page_body(s, fd) == { new_page_with(v, fd) : v \in find_victim_page(s) }

\* Mutant of delete_page_body: pin_count is not tested.
delete_page_ignores_pins(s, page_id) ==
    IF page_id \notin DOMAIN s.page_table
    THEN Result(s, TRUE, NoFrame, "none")
    ELSE LET frame_id == s.page_table[page_id]
             page == s.pages[frame_id]
             s1 == IF page.is_dirty
                   THEN write_page(s, page.id, page.data, frame_id)
                   ELSE s
             s2 == [s1 EXCEPT !.page_table = Erase(@, page_id)]
             s3 == reset_memory(s2, frame_id)
             s4 == unpin(s3, frame_id)
         IN  Result([s4 EXCEPT !.free_list = Append(@, frame_id)], TRUE, frame_id, "table")

\* Mutant of delete_page_body: a page that is not resident is reported as a failure.
delete_page_missing_fails(s, page_id) ==
    IF page_id \notin DOMAIN s.page_table
    THEN Result(s, FALSE, NoFrame, "none")
    ELSE LET frame_id == s.page_table[page_id]
             page == s.pages[frame_id]
         IN  IF page.pin_count # 0
             THEN Result(s, FALSE, frame_id, "table")
             ELSE LET s1 == IF page.is_dirty
                            THEN write_page(s, page.id, page.data, frame_id)
                            ELSE s
                      s2 == [s1 EXCEPT !.page_table = Erase(@, page_id)]
                      s3 == reset_memory(s2, frame_id)
                      s4 == unpin(s3, frame_id)
                  IN  Result([s4 EXCEPT !.free_list = Append(@, frame_id)],
                             TRUE, frame_id, "table")

\* delete_page(page_id).
delete_page_body(s, page_id) ==
    IF page_id \notin DOMAIN s.page_table
    THEN Result(s, TRUE, NoFrame, "none")
    ELSE LET frame_id == s.page_table[page_id]
             page == s.pages[frame_id]
         IN  IF page.pin_count # 0
             THEN Result(s, FALSE, frame_id, "table")
             ELSE LET s1 == IF page.is_dirty
                            THEN write_page(s, page.id, page.data, frame_id)
                            ELSE s
                      s2 == [s1 EXCEPT !.page_table = Erase(@, page_id)]
                      s3 == reset_memory(s2, frame_id)
                      s4 == unpin(s3, frame_id)
                  IN  Result([s4 EXCEPT !.free_list = Append(@, frame_id)],
                             TRUE, frame_id, "table")

\* An order in which the loop of flush_all_pages visits the page table.
RECURSIVE IterationOrder(_)
IterationOrder(ids) ==
    IF ids = {} THEN <<>>
    ELSE LET id == CHOOSE p \in ids : TRUE IN <<id>> \o IterationOrder(ids \ {id})

RECURSIVE flush_each(_, _)
flush_each(s, order) ==
    IF order = <<>> THEN s
    ELSE flush_each(flush_page_body(s, Head(order)).s, Tail(order))

\* Mutant of flush_all_pages_body: only the dirty pages of file fd are written.
flush_all_pages_of_fd(s, fd) ==
    Result(flush_each(s, IterationOrder({id \in DOMAIN s.page_table :
                                            id.fd = fd /\ s.pages[s.page_table[id]].is_dirty})),
           TRUE, NoFrame, "table")

\* flush_all_pages(fd), run with no other operation in progress.
flush_all_pages_body(s, fd) ==
    Result(flush_each(s, IterationOrder(DOMAIN s.page_table)), TRUE, NoFrame, "table")

\* A holder of a pin on page_id writes v into the page's buffer before it
\* releases the pin with unpin_page(page_id, true).
holder_write(s, page_id, v) ==
    IF page_id \in DOMAIN s.page_table /\ s.pages[s.page_table[page_id]].pin_count > 0
    THEN [s EXCEPT !.pages[s.page_table[page_id]].data = v]
    ELSE s

\* ---- the state machine ----------------------------------------------------
\* BufferPoolManager(pool_size, disk_manager): every frame is free and unpinned.
Init ==
    /\ pages = [f \in Frames |->
                  [id |-> NoPageId, is_dirty |-> FALSE, pin_count |-> 0, data |-> 0]]
    /\ page_table = [p \in {} |-> NoFrame]
    /\ free_list = [i \in 1 .. PoolSize |-> i - 1]
    /\ replacer = {}
    /\ disk = [p \in PageIds |-> 0]
    /\ next_page_no = [fd \in Fds |-> 0]
    /\ call = [name |-> "init", ok |-> TRUE, frame |-> NoFrame, src |-> "none"]
    /\ writebacks = [f \in Frames |-> 0]
    /\ latch = NoThread
    /\ pc = [t \in Threads |-> Idle]
    /\ ops = 0

\* The writes of frame f's buffer in a log of collaborator calls.
WritesOf(log, f) == {i \in DOMAIN log : log[i].ev = "write" /\ log[i].frame = f}

\* writebacks after an operation that started in a state with the frames
\* before and the count wb, and returned out: a frame that was clean has no
\* write-back to count, unpin_page(_, true) starts a new count.
CountWritebacks(before, wb, name, is_dirty, out) ==
    [f \in Frames |->
       IF name = "unpin_page" /\ is_dirty /\ out.ok /\ out.frame = f
       THEN 0
       ELSE IF before[f].is_dirty
            THEN wb[f] + Cardinality(WritesOf(out.s.io, f))
            ELSE 0]

\* The outcome out of operation name becomes the next state.
Return(name, is_dirty, out) ==
    /\ pages' = out.s.pages
    /\ page_table' = out.s.page_table
    /\ free_list' = out.s.free_list
    /\ replacer' = out.s.replacer
    /\ disk' = out.s.disk
    /\ next_page_no' = out.s.next_page_no
    /\ call' = [name |-> name, ok |-> out.ok, frame |-> out.frame, src |-> out.src]
    /\ writebacks' = CountWritebacks(pages, writebacks, name, is_dirty, out)
    /\ UNCHANGED <<latch, pc, ops>>

Allocated == {p \in PageIds : p.page_no < next_page_no[p.fd]}

\* A caller fetches a page that exists in its file.
fetch_page ==
    \E page_id \in Allocated :
        /\ page_id \in DOMAIN page_table => pages[page_table[page_id]].pin_count < MaxPin
        /\ \E out \in fetch_page_body(State, page_id) : Return("fetch_page", FALSE, out)

\* A caller releases a pin; one that reports the page dirty has written it.
unpin_page ==
    \E page_id \in PageIds, is_dirty \in BOOLEAN, v \in Data :
        LET s == IF is_dirty THEN holder_write(State, page_id, v) ELSE State
        IN  Return("unpin_page", is_dirty, unpin_page_body(s, page_id, is_dirty))

flush_page ==
    \E page_id \in PageIds \cup InvalidIds :
        Return("flush_page", FALSE, flush_page_body(State, page_id))

new_page ==
    \E fd \in Fds :
        /\ next_page_no[fd] < MaxPageNo
        /\ \E out \in new_page_body(State, fd) : Return("new_page", FALSE, out)

delete_page ==
    \E page_id \in PageIds :
        Return("delete_page", FALSE, delete_page_body(State, page_id))

flush_all_pages ==
    \E fd \in Fds \cup {NumFds + 1} :
        Return("flush_all_pages", FALSE, flush_all_pages_body(State, fd))

Next ==
    \/ fetch_page
    \/ unpin_page
    \/ flush_page
    \/ new_page
    \/ delete_page
    \/ flush_all_pages

Spec == Init /\ [][Next]_vars

\* ---- the operations called by concurrent threads ----------------------------
\* std::scoped_lock lock{latch_}: a thread gets past it when no thread holds l.
\* Mutant of scoped_lock: the latch is not waited for.
scoped_lock_no_wait(l) == TRUE

scoped_lock(l) == l = NoThread

\* free_list_.front() in find_victim_page.
free_list_front(s) == Head(s.free_list)

\* The lists of distinct frames.
FrameLists ==
    UNION {{q \in [1 .. n -> Frames] : \A i, j \in 1 .. n : q[i] = q[j] => i = j}
           : n \in 0 .. PoolSize}

\* free_list_.pop_front() in find_victim_page; on an empty list the behaviour
\* is undefined and the list may be left in any shape.
free_list_pop_front(s) ==
    IF s.free_list # <<>>
    THEN { [s EXCEPT !.free_list = Tail(@)] }
    ELSE { [s EXCEPT !.free_list = q] : q \in FrameLists }

\* The state s of the pool becomes the next state; the histories of the
\* sequential operations are not kept.
Commit(s) ==
    /\ pages' = s.pages
    /\ page_table' = s.page_table
    /\ free_list' = s.free_list
    /\ replacer' = s.replacer
    /\ disk' = s.disk
    /\ next_page_no' = s.next_page_no
    /\ UNCHANGED <<call, writebacks>>

\* The iterators that flush_all_pages holds into page_table_ stay valid only
\* while the table is not modified.
Invalidate(p, pt) ==
    [u \in Threads |->
        IF p[u].op = "flush_all_pages" /\ pt # page_table
        THEN [p[u] EXCEPT !.valid = FALSE]
        ELSE p[u]]

Acquiring(p) ==
    \/ p.op = "new_page"
    \/ p.op = "fetch_page" /\ p.page_id \notin DOMAIN page_table

\* Thread t calls an operation; flush_all_pages starts its loop at once, the
\* other operations first wait for latch_.
thread_call(t) ==
    /\ pc[t].op = "idle"
    /\ ops < MaxOps
    /\ ops' = ops + 1
    /\ \E op \in {"fetch_page", "unpin_page", "flush_page", "new_page", "delete_page",
                 "flush_all_pages"},
          page_id \in PageIds, is_dirty \in BOOLEAN :
          /\ op = "fetch_page" => page_id \in Allocated
          /\ op # "unpin_page" => ~is_dirty
          /\ op \in {"new_page", "flush_all_pages"} => page_id.page_no = 0
          /\ pc' = [pc EXCEPT ![t] =
                       [Idle EXCEPT !.op = op,
                                    !.stage = IF op = "flush_all_pages" THEN "iterate" ELSE "wait",
                                    !.page_id = page_id,
                                    !.is_dirty = is_dirty]]
    /\ UNCHANGED <<pages, page_table, free_list, replacer, disk, next_page_no,
                   call, writebacks, latch>>

\* std::scoped_lock lock{latch_} at the head of fetch_page, unpin_page,
\* flush_page, new_page and delete_page.
thread_lock(t) ==
    /\ pc[t].stage = "wait"
    /\ scoped_lock(latch)
    /\ pc[t].op = "new_page" => next_page_no[pc[t].page_id.fd] < MaxPageNo
    /\ (pc[t].op = "fetch_page" /\ pc[t].page_id \in DOMAIN page_table) =>
          pages[page_table[pc[t].page_id]].pin_count < MaxPin
    /\ latch' = t
    /\ pc' = [pc EXCEPT ![t].stage = "locked"]
    /\ UNCHANGED <<pages, page_table, free_list, replacer, disk, next_page_no,
                   call, writebacks, ops>>

\* The operation of thread t returns with the pool in state s and releases
\* latch_.
thread_return(t, s) ==
    /\ Commit(s)
    /\ latch' = NoThread
    /\ pc' = Invalidate([pc EXCEPT ![t] = Idle], s.page_table)
    /\ UNCHANGED ops

\* The body of an operation that takes no frame, run by the holder of latch_.
thread_body(t) ==
    /\ pc[t].stage = "locked"
    /\ pc[t].op \in {"fetch_page", "unpin_page", "flush_page", "delete_page"}
    /\ ~Acquiring(pc[t])
    /\ LET id == pc[t].page_id IN
       \/ /\ pc[t].op = "fetch_page"
          /\ thread_return(t, fetch_page_hit(State, id).s)
       \/ /\ pc[t].op = "unpin_page"
          /\ \E v \in Data :
                LET s == IF pc[t].is_dirty THEN holder_write(State, id, v) ELSE State
                IN  thread_return(t, unpin_page_body(s, id, pc[t].is_dirty).s)
       \/ /\ pc[t].op = "flush_page"
          /\ thread_return(t, flush_page_body(State, id).s)
       \/ /\ pc[t].op = "delete_page"
          /\ thread_return(t, delete_page_body(State, id).s)

\* find_victim_page up to free_list_.front(), or all of it when the free list
\* is empty; fetch_page and new_page return nullptr when it fails.
thread_find_victim(t) ==
    /\ pc[t].stage = "locked"
    /\ Acquiring(pc[t])
    /\ IF free_list # <<>>
       THEN /\ pc' = [pc EXCEPT ![t].stage = "pop",
                                ![t].frame = free_list_front(State),
                                ![t].src = "free_list"]
            /\ UNCHANGED <<pages, page_table, free_list, replacer, disk, next_page_no,
                           call, writebacks, latch, ops>>
       ELSE \E v \in find_victim_page(State) :
               IF v.ok
               THEN /\ Commit(v.s)
                    /\ pc' = Invalidate([pc EXCEPT ![t].stage = "install",
                                                   ![t].frame = v.frame_id,
                                                   ![t].src = v.src],
                                        v.s.page_table)
                    /\ UNCHANGED <<latch, ops>>
               ELSE thread_return(t, v.s)

\* free_list_.pop_front() of find_victim_page.
thread_pop_front(t) ==
    /\ pc[t].stage = "pop"
    /\ \E s \in free_list_pop_front(State) : Commit(s)
    /\ pc' = [pc EXCEPT ![t].stage = "install"]
    /\ UNCHANGED <<latch, ops>>

\* fetch_page and new_page after find_victim_page gave them a frame.
thread_install(t) ==
    /\ pc[t].stage = "install"
    /\ LET v == [ok |-> TRUE, frame_id |-> pc[t].frame, src |-> pc[t].src, s |-> State]
       IN  IF pc[t].op = "fetch_page"
           THEN thread_return(t, fetch_page_miss(v, pc[t].page_id).s)
           ELSE thread_return(t, new_page_with(v, pc[t].page_id.fd).s)

\* The for loop of flush_all_pages reads page_table_ without latch_: it takes
\* the next entry, or ends. An iterator into a table that was modified since
\* the loop began may yield any page id or the end.
thread_flush_all_next(t) ==
    /\ pc[t].op = "flush_all_pages"
    /\ pc[t].stage = "iterate"
    /\ LET rest == DOMAIN page_table \ pc[t].visited
           next == IF pc[t].valid
                   THEN IF rest = {} THEN {NoPageId} ELSE {IterationOrder(rest)[1]}
                   ELSE PageIds \cup {NoPageId}
       IN  \E id \in next :
              pc' = [pc EXCEPT ![t] =
                        IF id = NoPageId
                        THEN Idle
                        ELSE [@ EXCEPT !.stage = "flush_wait", !.page_id = id]]
    /\ UNCHANGED <<pages, page_table, free_list, replacer, disk, next_page_no,
                   call, writebacks, latch, ops>>

\* flush_page(pair.first) called by flush_all_pages: it waits for latch_ and
\* holds it for the call.
thread_flush_all_flush(t) ==
    /\ pc[t].op = "flush_all_pages"
    /\ pc[t].stage = "flush_wait"
    /\ scoped_lock(latch)
    /\ Commit(flush_page_body(State, pc[t].page_id).s)
    /\ pc' = [pc EXCEPT ![t].stage = "iterate", ![t].visited = @ \cup {pc[t].page_id}]
    /\ UNCHANGED <<latch, ops>>

NextConc ==
    \E t \in Threads :
        \/ thread_call(t)
        \/ thread_lock(t)
        \/ thread_body(t)
        \/ thread_find_victim(t)
        \/ thread_pop_front(t)
        \/ thread_install(t)
        \/ thread_flush_all_next(t)
        \/ thread_flush_all_flush(t)

SpecConc == Init /\ [][NextConc]_vars

\* ---- helpers of the claims -------------------------------------------------
\* The operation left the pool, the replacer and the disk manager as they were.
SameProgramState(s) ==
    /\ s.pages = pages
    /\ s.page_table = page_table
    /\ s.free_list = free_list
    /\ s.replacer = replacer
    /\ s.disk = disk
    /\ s.next_page_no = next_page_no

\* The last operation was a fetch_page or new_page that put a page into a frame.
Acquired(c) == c.name \in {"fetch_page", "new_page"} /\ c.ok /\ c.src # "table"

\* ---- C1 -------------------------------------------------------------------
\* C1: a page with pin_count > 0 is in the page table, mapped to the frame that
\* holds it, and that frame carries the page's identity, so the unpin_page of
\* its holder returns true, whatever operations were called in between.
C1_PinnedPageStaysResident ==
    \A f \in Frames :
        pages[f].pin_count > 0 =>
            /\ pages[f].id \in DOMAIN page_table
            /\ page_table[pages[f].id] = f
            /\ \A is_dirty \in BOOLEAN : unpin_page_body(State, pages[f].id, is_dirty).ok

\* ---- C2 -------------------------------------------------------------------
\* C2: with holders that report every modification by unpin_page(id, true), no
\* update is lost: the store's copy of a page changes only by a write of the
\* bytes the resident page holds; a page that leaves the page table leaves its
\* content in the store; and fetch_page of a non-resident page returns the
\* store's copy, which is the content the page had when it left.
C2_NoUpdateLost ==
    [][\A id \in PageIds :
          /\ disk'[id] # disk[id] =>
                /\ id \in DOMAIN page_table
                /\ disk'[id] = pages[page_table[id]].data
          /\ (id \in DOMAIN page_table /\ id \notin DOMAIN page_table') =>
                disk'[id] = pages[page_table[id]].data
          /\ (/\ call'.name = "fetch_page" /\ Acquired(call')
              /\ id \notin DOMAIN page_table /\ pages'[call'.frame].id = id) =>
                pages'[call'.frame].data = disk[id]
      ]_vars

\* ---- C3 -------------------------------------------------------------------
\* C3: when fetch_page or new_page gives a frame that is flagged dirty a new
\* identity, the frame's content has been written to the store at the old
\* identity exactly once since it was marked dirty, the store holds the old
\* content under the old identity, and the frame is clean afterwards.
C3_DirtyWrittenOnceBeforeReuse ==
    [][\A f \in Frames :
          (/\ Acquired(call') /\ call'.frame = f
           /\ pages[f].is_dirty
           /\ pages'[f].id # pages[f].id) =>
                /\ writebacks'[f] = 1
                /\ disk'[pages[f].id] = pages[f].data
                /\ ~pages'[f].is_dirty
      ]_vars

\* ---- C4 -------------------------------------------------------------------
PinnedPages == {id \in DOMAIN page_table : pages[page_table[id]].pin_count > 0}

PoolExhausted ==
    \/ Cardinality(PinnedPages) = PoolSize
    \/ \A f \in Frames : pages[f].pin_count > 0

\* C4: while PoolSize distinct pages are pinned, every new_page and every
\* fetch_page of a non-resident id returns no page and leaves the page table,
\* the free list, the frames, the replacer and the store as they were.
C4_ExhaustedPoolFails ==
    PoolExhausted =>
        /\ \A fd \in Fds : \A out \in new_page_body(State, fd) :
              ~out.ok /\ out.frame = NoFrame /\ SameProgramState(out.s)
        /\ \A id \in PageIds \ DOMAIN page_table : \A out \in fetch_page_body(State, id) :
              ~out.ok /\ out.frame = NoFrame /\ SameProgramState(out.s)

\* A fetch_page of a non-resident page has just failed with every frame pinned.
C4_Witness ==
    /\ call.name = "fetch_page" /\ ~call.ok
    /\ Cardinality(PinnedPages) = PoolSize

\* ---- C5 -------------------------------------------------------------------
\* C5: fetch_page of a resident id reads and writes nothing in the store, adds
\* exactly 1 to the frame's pin_count, takes the frame out of the replacer's
\* evictable set and changes nothing else.
C5_FetchResident ==
    \A id \in DOMAIN page_table :
        LET f == page_table[id] IN
        \A out \in fetch_page_body(State, id) :
            /\ out.ok /\ out.frame = f
            /\ \A i \in DOMAIN out.s.io : out.s.io[i].ev \notin {"read", "write"}
            /\ out.s.pages = [pages EXCEPT ![f].pin_count = pages[f].pin_count + 1]
            /\ out.s.replacer = replacer \ {f}
            /\ out.s.page_table = page_table
            /\ out.s.free_list = free_list
            /\ out.s.disk = disk
            /\ out.s.next_page_no = next_page_no

\* fetch_page has just pinned a resident, dirty page that was evictable.
C5_Witness ==
    /\ call.name = "fetch_page" /\ call.ok /\ call.src = "table"
    /\ pages[call.frame].pin_count = 1
    /\ pages[call.frame].is_dirty

\* ---- C6 -------------------------------------------------------------------
\* C6: pin_count is never below 0, and unpin_page of a non-resident id or of a
\* resident page with pin_count 0 returns false and changes nothing, also when
\* is_dirty is true.
C6_UnpinGuard ==
    /\ \A f \in Frames : pages[f].pin_count >= 0
    /\ \A id \in PageIds, is_dirty \in BOOLEAN :
          (id \notin DOMAIN page_table \/ pages[page_table[id]].pin_count = 0) =>
              LET out == unpin_page_body(State, id, is_dirty)
              IN  ~out.ok /\ out.s = State

\* unpin_page has just been refused on a resident page nobody holds.
C6_Witness ==
    /\ call.name = "unpin_page" /\ ~call.ok /\ call.src = "table"
    /\ pages[call.frame].pin_count = 0
    /\ ~pages[call.frame].is_dirty

\* ---- C7 -------------------------------------------------------------------
\* C7: delete_page of a resident page with pin_count # 0 returns false, writes
\* nothing and changes nothing.
C7_DeletePinned ==
    \A id \in DOMAIN page_table :
        pages[page_table[id]].pin_count # 0 =>
            LET out == delete_page_body(State, id)
            IN  ~out.ok /\ out.s = State

\* delete_page has just been refused on a pinned page that is dirty.
C7_Witness ==
    /\ call.name = "delete_page" /\ ~call.ok
    /\ pages[call.frame].pin_count > 0
    /\ pages[call.frame].is_dirty

\* ---- C8 -------------------------------------------------------------------
\* C8: delete_page of an id that is not in the page table returns true and
\* changes nothing.
C8_DeleteNonResident ==
    \A id \in PageIds \ DOMAIN page_table :
        LET out == delete_page_body(State, id)
        IN  out.ok /\ out.s = State

\* delete_page of a non-resident id has just returned while other pages are
\* resident and a frame is free.
C8_Witness ==
    /\ call.name = "delete_page" /\ call.ok /\ call.src = "none"
    /\ DOMAIN page_table # {}
    /\ free_list # <<>>

\* ---- C9 -------------------------------------------------------------------
\* C9: flush_page of a resident page with a valid page number writes the
\* frame's bytes to the store at that id whatever pin_count and dirty are,
\* clears dirty and changes nothing else; a second flush_page writes the same
\* bytes again and leaves the same state.
C9_FlushPage ==
    \A id \in DOMAIN page_table :
        id.page_no # INVALID_PAGE_ID =>
            LET f == page_table[id]
                out == flush_page_body(State, id)
                again == flush_page_body([out.s EXCEPT !.io = <<>>], id)
            IN  /\ out.ok
                /\ out.s.io = <<Event("write", id, pages[f].data, f)>>
                /\ out.s.disk = [disk EXCEPT ![id] = pages[f].data]
                /\ out.s.pages = [pages EXCEPT ![f].is_dirty = FALSE]
                /\ out.s.page_table = page_table
                /\ out.s.free_list = free_list
                /\ out.s.replacer = replacer
                /\ out.s.next_page_no = next_page_no
                /\ again.ok
                /\ again.s = out.s

\* flush_page has just written a pinned page whose bytes are not zero.
C9_Witness ==
    /\ call.name = "flush_page" /\ call.ok
    /\ pages[call.frame].pin_count > 0
    /\ pages[call.frame].data # 0
    /\ disk[pages[call.frame].id] = pages[call.frame].data
    /\ ~pages[call.frame].is_dirty

\* ---- C10 ------------------------------------------------------------------
NoVictimCall(log) == \A i \in DOMAIN log : log[i].ev # "victim"

\* C10: while the free list is not empty, fetch_page of a non-resident id and
\* new_page take the first frame of the free list and do not call victim();
\* delete_page appends the frame it releases to the free list.
C10_FreeListFirst ==
    /\ free_list # <<>> =>
          /\ \A v \in find_victim_page(State) :
                /\ v.ok /\ v.frame_id = Head(free_list)
                /\ v.s.free_list = Tail(free_list)
                /\ NoVictimCall(v.s.io)
          /\ \A fd \in Fds : \A out \in new_page_body(State, fd) :
                out.ok /\ out.frame = Head(free_list) /\ NoVictimCall(out.s.io)
          /\ \A id \in PageIds \ DOMAIN page_table : \A out \in fetch_page_body(State, id) :
                out.ok /\ out.frame = Head(free_list) /\ NoVictimCall(out.s.io)
    /\ \A id \in DOMAIN page_table :
          pages[page_table[id]].pin_count = 0 =>
              delete_page_body(State, id).s.free_list = Append(free_list, page_table[id])

\* A page has just been put into a frame taken from the free list while a
\* frame with a higher index is resident and evictable: the free list starts in
\* index order, so the frame taken is one that delete_page released.
C10_Witness ==
    /\ Acquired(call) /\ call.src = "free_list"
    /\ \E f \in replacer :
          /\ f > call.frame
          /\ pages[f].id \in DOMAIN page_table
          /\ page_table[pages[f].id] = f

\* ---- C11 ------------------------------------------------------------------
\* Thread t reads page_table_ in this step without holding latch_.
ReadsUnlocked(t) ==
    /\ pc[t].op = "flush_all_pages"
    /\ pc[t].stage = "iterate"
    /\ pc'[t].stage # "iterate"

\* Thread u is inside an operation that changes the page table or the free list.
InsideMutation(u) ==
    /\ pc[u].op \in {"fetch_page", "new_page", "delete_page"}
    /\ pc[u].stage \in {"locked", "pop", "install"}

\* C11: every operation holds latch_ for its full duration, so no thread reads
\* or iterates the page table while another thread is inside an operation that
\* mutates it; in particular flush_all_pages never looks at the page table
\* while a fetch_page, new_page or delete_page is under way.
C11_NoUnlockedRead ==
    [][\A t, u \in Threads : (t # u /\ ReadsUnlocked(t)) => ~InsideMutation(u)]_vars

\* ---- C12 ------------------------------------------------------------------
\* C12: the page table has at most PoolSize entries, no two page ids map to
\* the same frame, and a mapped frame carries the id that maps to it.
C12_PageTableInjective ==
    /\ Cardinality(DOMAIN page_table) <= PoolSize
    /\ \A p, q \in DOMAIN page_table : page_table[p] = page_table[q] => p = q
    /\ \A p \in DOMAIN page_table : pages[page_table[p]].id = p

\* The page table is full and the last page came into a frame the replacer
\* chose, whose former page was evicted.
C12_Witness ==
    /\ Acquired(call) /\ call.src = "replacer"
    /\ Cardinality(DOMAIN page_table) = PoolSize

\* ---- C13 ------------------------------------------------------------------
FreeFrames == {free_list[i] : i \in DOMAIN free_list}

\* C13: every frame in the free list has dirty == false, and a fetch_page or
\* new_page that takes its frame from the free list issues no write_page.
C13_FreeFramesClean ==
    /\ \A f \in FreeFrames : ~pages[f].is_dirty
    /\ free_list # <<>> =>
          /\ \A fd \in Fds : \A out \in new_page_body(State, fd) :
                WritesOf(out.s.io, out.frame) = {}
          /\ \A id \in PageIds \ DOMAIN page_table : \A out \in fetch_page_body(State, id) :
                WritesOf(out.s.io, out.frame) = {}

\* ---- C14 ------------------------------------------------------------------
ResidentFrames == {page_table[p] : p \in DOMAIN page_table}

\* C14: between operations every frame is either in the free list, once, or
\* the value of exactly one page-table entry, never both and never neither, so
\* |free list| + |page table| = PoolSize.
C14_FreeOrResident ==
    /\ Len(free_list) + Cardinality(DOMAIN page_table) = PoolSize
    /\ \A f \in Frames : (f \in FreeFrames) # (f \in ResidentFrames)
    /\ \A i, j \in DOMAIN free_list : free_list[i] = free_list[j] => i = j

\* ---- C15 ------------------------------------------------------------------
\* What C15 says of the outcome out of a fetch_page or new_page for page id.
InstalledAs(out, id) ==
    LET f == out.frame IN
    /\ out.s.pages[f].id = id
    /\ out.s.pages[f].pin_count = 1
    /\ ~out.s.pages[f].is_dirty
    /\ id \in DOMAIN out.s.page_table
    /\ out.s.page_table[id] = f
    /\ f \notin out.s.replacer
    /\ pages[f].id # id => pages[f].id \notin DOMAIN out.s.page_table

\* C15: after a successful fetch_page of a non-resident id or a successful
\* new_page the frame carries the requested or allocated id, has pin_count 1
\* and dirty false, the page table maps the id to the frame, the frame's
\* previous identity is not in the page table, and the frame is not evictable.
C15_FrameInstalled ==
    /\ \A fd \in Fds :
          next_page_no[fd] < MaxPageNo =>
              \A out \in new_page_body(State, fd) :
                  out.ok => InstalledAs(out, [fd |-> fd, page_no |-> next_page_no[fd]])
    /\ \A id \in Allocated \ DOMAIN page_table :
          \A out \in fetch_page_body(State, id) : out.ok => InstalledAs(out, id)

\* ---- C16 ------------------------------------------------------------------
\* The outcome out of an operation clears the dirty flag of a frame only if
\* the operation wrote the frame's bytes to the store at the frame's identity.
ClearsDirtyByWrite(out) ==
    \A f \in Frames :
        (pages[f].is_dirty /\ ~out.s.pages[f].is_dirty) =>
            \E i \in DOMAIN out.s.io :
                out.s.io[i] = Event("write", pages[f].id, pages[f].data, f)

\* C16: a dirty flag goes from true to false only in an operation that writes
\* the frame's bytes to the store at its identity; unpin_page(id, true) that
\* succeeds sets dirty, unpin_page(id, false) leaves dirty as it was.
C16_DirtyClearedByWrite ==
    /\ \A id \in Allocated : \A out \in fetch_page_body(State, id) : ClearsDirtyByWrite(out)
    /\ \A fd \in Fds : \A out \in new_page_body(State, fd) : ClearsDirtyByWrite(out)
    /\ \A id \in PageIds \cup InvalidIds : ClearsDirtyByWrite(flush_page_body(State, id))
    /\ \A id \in PageIds : ClearsDirtyByWrite(delete_page_body(State, id))
    /\ \A fd \in Fds \cup {NumFds + 1} : ClearsDirtyByWrite(flush_all_pages_body(State, fd))
    /\ \A id \in PageIds :
          LET yes == unpin_page_body(State, id, TRUE)
              no == unpin_page_body(State, id, FALSE)
          IN  /\ ClearsDirtyByWrite(yes)
              /\ yes.ok => yes.s.pages[yes.frame].is_dirty
              /\ \A f \in Frames : no.s.pages[f].is_dirty = pages[f].is_dirty

\* A dirty page has just been evicted by the replacer's choice: it was written
\* once in that operation and its frame is clean.
C16_Witness ==
    /\ Acquired(call) /\ call.src = "replacer"
    /\ writebacks[call.frame] = 1
    /\ ~pages[call.frame].is_dirty

\* ---- C17 ------------------------------------------------------------------
\* C17: every resident frame with pin_count 0 is evictable, and while the free
\* list is not empty or a resident page has pin_count 0, new_page and
\* fetch_page of a non-resident id return a page.
C17_FailsOnlyWhenExhausted ==
    /\ \A p \in DOMAIN page_table :
          pages[page_table[p]].pin_count = 0 => page_table[p] \in replacer
    /\ (free_list # <<>> \/ \E p \in DOMAIN page_table : pages[page_table[p]].pin_count = 0) =>
          /\ \A fd \in Fds : \A out \in new_page_body(State, fd) : out.ok
          /\ \A id \in PageIds \ DOMAIN page_table :
                \A out \in fetch_page_body(State, id) : out.ok

\* fetch_page has just succeeded by evicting the only page that was not
\* pinned: the free list was empty and every frame is pinned now.
C17_Witness ==
    /\ call.name = "fetch_page" /\ Acquired(call) /\ call.src = "replacer"
    /\ \A f \in Frames : pages[f].pin_count > 0

\* ---- C18 ------------------------------------------------------------------
\* The fetch_page or new_page at position p has been given a frame and has not
\* yet returned.
Selected(p) == p.op \in {"fetch_page", "new_page"} /\ p.stage \in {"pop", "install"}

\* C18: under any interleaving of concurrent fetch_page and new_page calls two
\* callers never hold the same selected frame and the page table never maps
\* two page ids to one frame; from the selection of the frame to the return of
\* the call no step of another thread changes the pool.
C18_SelectionIndivisible ==
    /\ [](/\ \A t, u \in Threads :
               (t # u /\ Selected(pc[t]) /\ Selected(pc[u])) => pc[t].frame # pc[u].frame
          /\ \A p, q \in DOMAIN page_table : page_table[p] = page_table[q] => p = q)
    /\ [][\A t \in Threads :
             (Selected(pc[t]) /\ pc'[t] = pc[t]) =>
                 UNCHANGED <<pages, page_table, free_list, replacer, disk, next_page_no>>]_vars

\* One thread is between the replacer's choice of a victim and the installation
\* of its page while another thread has called fetch_page or new_page and waits.
C18_Witness ==
    \E t, u \in Threads :
        /\ t # u
        /\ Selected(pc[t]) /\ pc[t].stage = "install" /\ pc[t].src = "replacer"
        /\ pc[u].op \in {"fetch_page", "new_page"} /\ pc[u].stage = "wait"

\* ---- C19 ------------------------------------------------------------------
\* C19: flush_all_pages(fd), run alone, writes every resident page exactly
\* once, whatever its dirty flag and whether or not its file is fd, leaves
\* every resident page clean and leaves the page table, the free list, the
\* replacer and the pin counts as they were.
C19_FlushAllPages ==
    \A fd \in Fds \cup {NumFds + 1} :
        LET out == flush_all_pages_body(State, fd) IN
        /\ Len(out.s.io) = Cardinality(DOMAIN page_table)
        /\ \A id \in DOMAIN page_table :
              /\ Cardinality({i \in DOMAIN out.s.io :
                    out.s.io[i] = Event("write", id, pages[page_table[id]].data,
                                        page_table[id])}) = 1
              /\ ~out.s.pages[page_table[id]].is_dirty
              /\ out.s.disk[id] = pages[page_table[id]].data
        /\ \A f \in Frames :
              /\ out.s.pages[f].pin_count = pages[f].pin_count
              /\ out.s.pages[f].id = pages[f].id
              /\ out.s.pages[f].data = pages[f].data
              /\ f \notin ResidentFrames => out.s.pages[f] = pages[f]
        /\ out.s.page_table = page_table
        /\ out.s.free_list = free_list
        /\ out.s.replacer = replacer
        /\ out.s.next_page_no = next_page_no

\* flush_all_pages has just run with a full page table: a pinned page with
\* bytes that are not zero is in the store and every resident page is clean.
C19_Witness ==
    /\ call.name = "flush_all_pages"
    /\ Cardinality(DOMAIN page_table) = PoolSize
    /\ \A p \in DOMAIN page_table :
          ~pages[page_table[p]].is_dirty /\ disk[p] = pages[page_table[p]].data
    /\ \E p \in DOMAIN page_table :
          pages[page_table[p]].data # 0 /\ pages[page_table[p]].pin_count > 0

\* ---- C20 ------------------------------------------------------------------
\* C20: whenever the free list is empty, so that victim() is consulted, every
\* evictable frame is resident under its own identity with pin_count 0; and a
\* resident frame is evictable if and only if its pin_count is 0.
C20_EvictableFramesResident ==
    /\ free_list = <<>> =>
          \A f \in replacer :
              /\ pages[f].id \in DOMAIN page_table
              /\ page_table[pages[f].id] = f
              /\ pages[f].pin_count = 0
    /\ \A p \in DOMAIN page_table :
          (page_table[p] \in replacer) <=> (pages[page_table[p]].pin_count = 0)

====
